---- MODULE Spec2Model ----
(***************************************************************************)
(* PrivacyToken (src/src/walletInstance/token/privacyToken.ts): a wallet   *)
(* token whose operations validate their parameters, gather the native and *)
(* the token coin inventories, dispatch to one send / bridge collaborator  *)
(* and log and re-throw every failure.                                     *)
(*                                                                         *)
(* JavaScript values are tagged records, so that null, undefined, false,   *)
(* numbers, strings and objects stay distinct values.  Every call of an    *)
(* operation keeps its own event trace: the log entries it wrote, the      *)
(* collaborator calls it issued and the settlements it received, in order. *)
(***************************************************************************)
EXTENDS Integers, Sequences, FiniteSets, TLC

VARIABLES this, calls

vars == <<this, calls>>

---------------------------------------------------------------------------
(* Bounds *)

MaxCalls == 2

MaxAmount == 1

MaxPayments == 2

MaxCoins == 1

---------------------------------------------------------------------------
(* JavaScript values *)

Undefined == [type |-> "undefined"]

Null == [type |-> "null"]

Bool(b) == [type |-> "boolean", v |-> b]

Num(n) == [type |-> "number", v |-> n]

Str(s) == [type |-> "string", v |-> s]

Arr(s) == [type |-> "array", v |-> s]

\* ToBoolean of the values the model uses: null, undefined, false, 0 and ""
\* are falsy, objects and arrays are truthy.
Truthy(x) ==
    CASE x.type = "undefined" -> FALSE
      [] x.type = "null" -> FALSE
      [] x.type = "boolean" -> x.v
      [] x.type = "number" -> x.v # 0
      [] x.type = "string" -> x.v # ""
      [] OTHER -> TRUE

\* x && y
JsAnd(x, y) == IF Truthy(x) THEN y ELSE x

\* x?.field, for the one field read that way
OptCurrencyType(x) == IF x.type \in {"undefined", "null"} THEN Undefined ELSE x.currencyType

---------------------------------------------------------------------------
(* Constants of @src/constants *)

ERC20 == Str("ERC20")

CENTRALIZED == Str("CENTRALIZED")

ETHEREUM == Str("ETHEREUM_TOKEN_ID")

---------------------------------------------------------------------------
(* Validator of @src/utils/validator *)

ValidationError(name, check) == [type |-> "error", kind |-> "ValidationError", param |-> name, check |-> check]

IsDefined(x) == x.type \notin {"undefined", "null"}

IsAmount(x) == x.type = "number" /\ x.v >= 0

IsString(x) == x.type = "string" /\ x.v # ""

IsPaymentInfo(p) == p.paymentAddressStr # "" /\ p.amount > 0

IsPaymentInfoList(x) ==
    /\ x.type = "array"
    /\ Len(x.v) > 0
    /\ \A i \in 1..Len(x.v) : IsPaymentInfo(x.v[i])

Passes(check, x) ==
    CASE check = "required" -> IsDefined(x)
      [] check = "amount" -> IsAmount(x)
      [] check = "string" -> IsString(x)
      [] check = "paymentInfoList" -> IsPaymentInfoList(x)

\* new Validator(name, value).required().<check>(): the checks run left to
\* right and the first that fails throws.  Ok, or the error thrown.
Ok == [type |-> "ok"]

Validator(name, value, check) ==
    IF ~Passes("required", value) THEN ValidationError(name, "required")
    ELSE IF check # "required" /\ ~Passes(check, value) THEN ValidationError(name, check)
    ELSE Ok

RECURSIVE RunValidators(_, _)
\* The Validator statements of a method, executed in statement order.  Each
\* is <<name, value, check>>.  The result holds the names of the parameters
\* whose Validator was executed and the error of the one that threw, if any.
RunValidators(stmts, done) ==
    IF stmts = <<>> THEN [validated |-> done, error |-> Ok]
    ELSE LET s == Head(stmts)
             r == Validator(s[1], s[2], s[3])
         IN IF r # Ok THEN [validated |-> Append(done, s[1]), error |-> r]
            ELSE RunValidators(Tail(stmts), Append(done, s[1]))

---------------------------------------------------------------------------
(* The instance *)

AccountKeySet == [type |-> "object", paymentAddressKeySerialized |-> Str("paymentAddress")]

BridgeInfo(currencyType, contractID) == [type |-> "object", currencyType |-> currencyType, contractID |-> contractID]

PrivacyTokenApi(tokenId, bridgeInfo) ==
    [type |-> "object", tokenId |-> tokenId, name |-> Str("Test"), symbol |-> Str("TST"),
     supplyAmount |-> Num(1000), bridgeInfo |-> bridgeInfo]

TokenIds == {ETHEREUM, Str("T1")}

BridgeInfos == {Null, Undefined, BridgeInfo(ERC20, Str("0xABC")), BridgeInfo(CENTRALIZED, Str(""))}

AccountKeySetInputs == {Undefined, AccountKeySet}

PrivacyTokenApiInputs == {Undefined} \cup {PrivacyTokenApi(t, b) : t \in TokenIds, b \in BridgeInfos}

\* No instance: the constructor threw.
NoInstance(e) ==
    [constructed |-> FALSE, error |-> e, accountKeySet |-> Undefined, tokenId |-> Undefined,
     name |-> Undefined, symbol |-> Undefined, isPrivacyToken |-> Undefined,
     totalSupply |-> Undefined, bridgeInfo |-> Undefined]

\* constructor with privacyTokenApi validated ahead of accountKeySet.
constructorApiFirst(accountKeySet, privacyTokenApi) ==
    LET v == RunValidators(<< <<"privacyTokenApi", privacyTokenApi, "required">>,
                              <<"accountKeySet", accountKeySet, "required">> >>, <<>>)
    IN IF v.error # Ok THEN NoInstance(v.error)
       ELSE [constructed |-> TRUE, error |-> Ok,
             accountKeySet |-> accountKeySet,
             tokenId |-> privacyTokenApi.tokenId,
             name |-> privacyTokenApi.name,
             symbol |-> privacyTokenApi.symbol,
             isPrivacyToken |-> Bool(TRUE),
             totalSupply |-> privacyTokenApi.supplyAmount,
             bridgeInfo |-> privacyTokenApi.bridgeInfo]

\* constructor({ accountKeySet, privacyTokenApi })
constructor(accountKeySet, privacyTokenApi) ==
    LET v == RunValidators(<< <<"accountKeySet", accountKeySet, "required">>,
                              <<"privacyTokenApi", privacyTokenApi, "required">> >>, <<>>)
    IN IF v.error # Ok THEN NoInstance(v.error)
       ELSE [constructed |-> TRUE, error |-> Ok,
             accountKeySet |-> accountKeySet,
             tokenId |-> privacyTokenApi.tokenId,
             name |-> privacyTokenApi.name,
             symbol |-> privacyTokenApi.symbol,
             isPrivacyToken |-> Bool(TRUE),
             totalSupply |-> privacyTokenApi.supplyAmount,
             bridgeInfo |-> privacyTokenApi.bridgeInfo]

\* get bridgeErc20Token()
bridgeErc20Token(t) == Bool(OptCurrencyType(t.bridgeInfo) = ERC20)

\* get bridgeEthereum()
bridgeEthereum(t) == JsAnd(t.bridgeInfo, Bool(t.tokenId = ETHEREUM))

---------------------------------------------------------------------------
(* Calls, their event traces and the collaborators' answers *)

Calls == 1..MaxCalls

IdleCall ==
    [op |-> "none", args |-> <<>>, pc |-> "idle", value |-> Undefined, trace |-> <<>>,
     validated |-> <<>>, awaiting |-> "none", nativeAvailableCoins |-> Undefined, privacyAvailableCoins |-> Undefined]

\* L.info / L.warning / L.error: text is the message with the interpolated
\* values taken out, tokenId and address are the values interpolated into it
\* (Undefined when the message has none), data is the second argument.
LogEntry(level, text, tokenId, interpolated, data) ==
    [ev |-> "log", level |-> level, text |-> text, tokenId |-> tokenId,
     interpolated |-> interpolated, data |-> data]

\* A collaborator function is called with params.
Invoke(name, params) == [ev |-> "call", name |-> name, params |-> params]

\* The awaited promise of a collaborator settles.
Settle(name, r) == [ev |-> "settle", name |-> name, ok |-> r.ok, value |-> r.value]

Emit(call, e) == [call EXCEPT !.trace = Append(@, e)]

CollaboratorError(name) == [type |-> "error", kind |-> "CollaboratorError", from |-> name]

Fulfilled(v) == [ok |-> TRUE, value |-> v]

Rejected(e) == [ok |-> FALSE, value |-> e]

\* Coin inventories a query may yield: a list of n coins of the queried
\* currency (filter is the argument of getAvailableCoins).
CoinsResults(filter) ==
    {Fulfilled([type |-> "coins", filter |-> filter, n |-> n]) : n \in 0..MaxCoins}
        \cup {Rejected(CollaboratorError("getAvailableCoins"))}

TxIds == {Str("tx1"), Str("tx2")}

HistoryResults(name) ==
    {Fulfilled([type |-> "history", txId |-> t]) : t \in TxIds} \cup {Rejected(CollaboratorError(name))}

\* The call returns v / throws e to its caller.
Resolve(call, v) == [call EXCEPT !.pc = "resolved", !.value = v]

Reject(call, e) == [call EXCEPT !.pc = "rejected", !.value = e]

\* The call suspends on the promise of the collaborator call it just issued.
Await(call, pc, name, params) ==
    [Emit(call, Invoke(name, params)) EXCEPT !.pc = pc, !.awaiting = name]

\* The awaited promise settles with r and the call resumes.
Resume(call, r) == [Emit(call, Settle(call.awaiting, r)) EXCEPT !.awaiting = "none"]

Init ==
    /\ this \in {constructor(a, p) : a \in AccountKeySetInputs, p \in PrivacyTokenApiInputs}
    /\ calls = [c \in Calls |-> IdleCall]

---------------------------------------------------------------------------
(* Arguments the callers pass *)

Amounts == {Undefined} \cup {Num(n) : n \in -1..MaxAmount}

Strings == {Undefined, Num(5), Str(""), Str("s")}

PaymentInfos ==
    {[paymentAddressStr |-> "addr", amount |-> 1],
     [paymentAddressStr |-> "addr", amount |-> 0],
     [paymentAddressStr |-> "", amount |-> 1]}

PaymentLists ==
    {Undefined} \cup {Arr(l) : l \in UNION {[1..n -> PaymentInfos] : n \in 0..MaxPayments}}

---------------------------------------------------------------------------
(* transfer, burning, pdeContribution, requestTrade *)

SendOps == {"transfer", "burning", "pdeContribution", "requestTrade"}

\* The send collaborator each method awaits.
SendCollaborator(op) ==
    CASE op = "transfer" -> "sendPrivacyToken"
      [] op = "burning" -> "sendBurningRequest"
      [] op = "pdeContribution" -> "sendPrivacyTokenPdeContribution"
      [] op = "requestTrade" -> "sendPrivacyTokenPdeTradeRequest"

\* The L.info before the send, the L.info after it and the L.error of the
\* catch block; each message interpolates this.tokenId.
AttemptText(op) ==
    CASE op = "transfer" -> "Privacy token # transfer"
      [] op = "burning" -> "Privacy token # send burning request"
      [] op = "pdeContribution" -> "Privacy token # sent PDE contribution request"
      [] op = "requestTrade" -> "Privacy token # sent trade request"

SuccessText(op) ==
    CASE op = "transfer" -> "Privacy token # transfered successfully with tx id #"
      [] op = "burning" -> "Privacy token # send burning request successfully with tx id #"
      [] op = "pdeContribution" -> "Privacy token # sent PDE contribution request successfully with tx id #"
      [] op = "requestTrade" -> "Privacy token # sent trade request successfully with tx id #"

FailedText(op) ==
    CASE op = "transfer" -> "Privacy token # transfered failed"
      [] op = "burning" -> "Privacy token # sent burning request failed"
      [] op = "pdeContribution" -> "Privacy token # sent PDE contribution request failed"
      [] op = "requestTrade" -> "Privacy token # sent trade request failed"

\* Catch throwing a new error that wraps e.
CatchWrapping(t, call, e) ==
    Reject(Emit(call, LogEntry("error", FailedText(call.op), t.tokenId, Undefined, e)),
           [type |-> "error", kind |-> "Error", cause |-> e])

\* catch (e) { L.error(`... ${this.tokenId} ... failed`, e); throw e; }
Catch(t, call, e) ==
    Reject(Emit(call, LogEntry("error", FailedText(call.op), t.tokenId, Undefined, e)), e)

\* SendParams with the native inventory passed as the token's inventory too.
SendParamsNativeTwice(t, call) ==
    LET a == call.args
        identity == [accountKeySet |-> t.accountKeySet,
                     privacyAvailableCoins |-> call.nativeAvailableCoins,
                     nativeFee |-> a.nativeFee, privacyFee |-> a.privacyFee,
                     tokenId |-> t.tokenId, tokenName |-> t.name, tokenSymbol |-> t.symbol]
    IN CASE call.op = "transfer" ->
              identity @@ [nativeAvailableCoins |-> call.nativeAvailableCoins,
                           privacyPaymentInfoList |-> a.paymentList]
         [] call.op = "burning" ->
              identity @@ [nativeAvailableCoins |-> call.nativeAvailableCoins,
                           outchainAddress |-> a.outchainAddress,
                           burningAmount |-> a.burningAmount]
         [] call.op = "pdeContribution" ->
              identity @@ [availableNativeCoins |-> call.nativeAvailableCoins,
                           pdeContributionPairID |-> a.pdeContributionPairID,
                           contributedAmount |-> a.contributedAmount]
         [] call.op = "requestTrade" ->
              identity @@ [availableNativeCoins |-> call.nativeAvailableCoins,
                           tradingFee |-> a.tradingFee, tokenIdBuy |-> a.tokenIdBuy,
                           sellAmount |-> a.sellAmount,
                           minimumAcceptableAmount |-> a.minimumAcceptableAmount]

\* The object literal passed to the send collaborator.  sendPrivacyToken and
\* sendBurningRequest take the native inventory as nativeAvailableCoins, the
\* two PDE senders as availableNativeCoins.
SendParams(t, call) ==
    LET a == call.args
        identity == [accountKeySet |-> t.accountKeySet,
                     privacyAvailableCoins |-> call.privacyAvailableCoins,
                     nativeFee |-> a.nativeFee, privacyFee |-> a.privacyFee,
                     tokenId |-> t.tokenId, tokenName |-> t.name, tokenSymbol |-> t.symbol]
    IN CASE call.op = "transfer" ->
              identity @@ [nativeAvailableCoins |-> call.nativeAvailableCoins,
                           privacyPaymentInfoList |-> a.paymentList]
         [] call.op = "burning" ->
              identity @@ [nativeAvailableCoins |-> call.nativeAvailableCoins,
                           outchainAddress |-> a.outchainAddress,
                           burningAmount |-> a.burningAmount]
         [] call.op = "pdeContribution" ->
              identity @@ [availableNativeCoins |-> call.nativeAvailableCoins,
                           pdeContributionPairID |-> a.pdeContributionPairID,
                           contributedAmount |-> a.contributedAmount]
         [] call.op = "requestTrade" ->
              identity @@ [availableNativeCoins |-> call.nativeAvailableCoins,
                           tradingFee |-> a.tradingFee, tokenIdBuy |-> a.tokenIdBuy,
                           sellAmount |-> a.sellAmount,
                           minimumAcceptableAmount |-> a.minimumAcceptableAmount]

\* Enter issuing the two inventory queries together, before awaiting either.
EnterBothQueries(t, op, args, stmts) ==
    LET v == RunValidators(stmts, <<>>)
        entered == [IdleCall EXCEPT !.op = op, !.args = args, !.validated = v.validated]
    IN IF v.error # Ok THEN Catch(t, entered, v.error)
       ELSE Await(Emit(Emit(entered, LogEntry("info", AttemptText(op), t.tokenId, Undefined, args)),
                       Invoke("getAvailableCoins", <<Null>>)),
                  "awaitNative", "getAvailableCoins", <<>>)

\* Enter with the L.info written after the first inventory query is issued.
EnterLoggingLate(t, op, args, stmts) ==
    LET v == RunValidators(stmts, <<>>)
        entered == [IdleCall EXCEPT !.op = op, !.args = args, !.validated = v.validated]
    IN IF v.error # Ok THEN Catch(t, entered, v.error)
       ELSE [Emit(Emit(entered, Invoke("getAvailableCoins", <<Null>>)),
                  LogEntry("info", AttemptText(op), t.tokenId, Undefined, args))
                EXCEPT !.pc = "awaitNative", !.awaiting = "getAvailableCoins"]

\* Enter with the first inventory query issued ahead of the Validator
\* statements: a failed validation rejects after the query went out.
EnterQueryFirst(t, op, args, stmts) ==
    LET v == RunValidators(stmts, <<>>)
        entered == [IdleCall EXCEPT !.op = op, !.args = args, !.validated = v.validated]
    IN IF v.error # Ok
       THEN Catch(t, Emit(entered, Invoke("getAvailableCoins", <<Null>>)), v.error)
       ELSE Await(Emit(entered, LogEntry("info", AttemptText(op), t.tokenId, Undefined, args)),
                  "awaitNative", "getAvailableCoins", <<Null>>)

\* The synchronous head of the four methods: the Validator statements, the
\* L.info, and the first await, this.getNativeAvailableCoins(), which is
\* this.getAvailableCoins(null).  A Validator that throws lands in catch.
Enter(t, op, args, stmts) ==
    LET v == RunValidators(stmts, <<>>)
        entered == [IdleCall EXCEPT !.op = op, !.args = args, !.validated = v.validated]
    IN IF v.error # Ok THEN Catch(t, entered, v.error)
       ELSE Await(Emit(entered, LogEntry("info", AttemptText(op), t.tokenId, Undefined, args)),
                  "awaitNative", "getAvailableCoins", <<Null>>)

transfer(c, paymentList, nativeFee, privacyFee) ==
    /\ this.constructed
    /\ calls[c].pc = "idle"
    /\ calls' = [calls EXCEPT ![c] =
          Enter(this, "transfer",
                [paymentList |-> paymentList, nativeFee |-> nativeFee, privacyFee |-> privacyFee],
                << <<"paymentList", paymentList, "paymentInfoList">>,
                   <<"nativeFee", nativeFee, "amount">>,
                   <<"privacyFee", privacyFee, "amount">> >>)]
    /\ UNCHANGED this

\* burning with the two fees validated ahead of outchainAddress and burningAmount.
burningFeesFirst(c, outchainAddress, burningAmount, nativeFee, privacyFee) ==
    /\ this.constructed
    /\ calls[c].pc = "idle"
    /\ calls' = [calls EXCEPT ![c] =
          Enter(this, "burning",
                [outchainAddress |-> outchainAddress, burningAmount |-> burningAmount,
                 nativeFee |-> nativeFee, privacyFee |-> privacyFee],
                << <<"nativeFee", nativeFee, "amount">>,
                   <<"privacyFee", privacyFee, "amount">>,
                   <<"outchainAddress", outchainAddress, "string">>,
                   <<"burningAmount", burningAmount, "amount">> >>)]
    /\ UNCHANGED this

burning(c, outchainAddress, burningAmount, nativeFee, privacyFee) ==
    /\ this.constructed
    /\ calls[c].pc = "idle"
    /\ calls' = [calls EXCEPT ![c] =
          Enter(this, "burning",
                [outchainAddress |-> outchainAddress, burningAmount |-> burningAmount,
                 nativeFee |-> nativeFee, privacyFee |-> privacyFee],
                << <<"outchainAddress", outchainAddress, "string">>,
                   <<"burningAmount", burningAmount, "amount">>,
                   <<"nativeFee", nativeFee, "amount">>,
                   <<"privacyFee", privacyFee, "amount">> >>)]
    /\ UNCHANGED this

pdeContribution(c, pdeContributionPairID, contributedAmount, nativeFee, privacyFee) ==
    /\ this.constructed
    /\ calls[c].pc = "idle"
    /\ calls' = [calls EXCEPT ![c] =
          Enter(this, "pdeContribution",
                [pdeContributionPairID |-> pdeContributionPairID,
                 contributedAmount |-> contributedAmount,
                 nativeFee |-> nativeFee, privacyFee |-> privacyFee],
                << <<"pdeContributionPairID", pdeContributionPairID, "string">>,
                   <<"contributedAmount", contributedAmount, "amount">>,
                   <<"nativeFee", nativeFee, "amount">>,
                   <<"privacyFee", privacyFee, "amount">> >>)]
    /\ UNCHANGED this

requestTrade(c, tokenIdBuy, sellAmount, minimumAcceptableAmount, nativeFee, privacyFee, tradingFee) ==
    /\ this.constructed
    /\ calls[c].pc = "idle"
    /\ calls' = [calls EXCEPT ![c] =
          Enter(this, "requestTrade",
                [tokenIdBuy |-> tokenIdBuy, sellAmount |-> sellAmount,
                 minimumAcceptableAmount |-> minimumAcceptableAmount,
                 nativeFee |-> nativeFee, privacyFee |-> privacyFee, tradingFee |-> tradingFee],
                << <<"tokenIdBuy", tokenIdBuy, "string">>,
                   <<"sellAmount", sellAmount, "amount">>,
                   <<"minimumAcceptableAmount", minimumAcceptableAmount, "amount">>,
                   <<"nativeFee", nativeFee, "amount">>,
                   <<"privacyFee", privacyFee, "amount">>,
                   <<"tradingFee", tradingFee, "amount">> >>)]
    /\ UNCHANGED this

\* NativeCoinsSettled reusing the token inventory another call on the
\* instance has already fetched, in place of querying it again.
NativeCoinsSettledReusingInventory(c, r) ==
    /\ calls[c].pc = "awaitNative"
    /\ r \in CoinsResults(Null)
    /\ LET resumed == Resume(calls[c], r)
           fetched == {d \in Calls \ {c} : calls[d].privacyAvailableCoins # Undefined}
           reusing == [resumed EXCEPT !.nativeAvailableCoins = r.value,
                                      !.privacyAvailableCoins =
                                          calls[CHOOSE d \in fetched : TRUE].privacyAvailableCoins]
       IN calls' = [calls EXCEPT ![c] =
             IF r.ok /\ fetched # {}
             THEN Await(reusing, "awaitSend", SendCollaborator(reusing.op),
                        <<SendParams(this, reusing)>>)
             ELSE IF r.ok
             THEN Await([resumed EXCEPT !.nativeAvailableCoins = r.value],
                        "awaitToken", "getAvailableCoins", <<>>)
             ELSE Catch(this, resumed, r.value)]
    /\ UNCHANGED this

\* await this.getNativeAvailableCoins() settles.  Fulfilled: the next property
\* of the object literal is evaluated, await this.getAvailableCoins().
\* Rejected: the catch block.
NativeCoinsSettled(c, r) ==
    /\ calls[c].pc = "awaitNative"
    /\ r \in CoinsResults(Null)
    /\ LET resumed == Resume(calls[c], r)
       IN calls' = [calls EXCEPT ![c] =
             IF r.ok
             THEN Await([resumed EXCEPT !.nativeAvailableCoins = r.value],
                        "awaitToken", "getAvailableCoins", <<>>)
             ELSE Catch(this, resumed, r.value)]
    /\ UNCHANGED this

\* TokenCoinsSettled skipping the send when another call of the same
\* operation with the same arguments has already sent.
TokenCoinsSettledDeduplicating(c, r) ==
    /\ calls[c].pc = "awaitToken"
    /\ r \in CoinsResults(Undefined)
    /\ LET resumed == Resume(calls[c], r)
           ready == [resumed EXCEPT !.privacyAvailableCoins = r.value]
           duplicate == \E d \in Calls \ {c} :
                            /\ calls[d].op = calls[c].op
                            /\ calls[d].args = calls[c].args
                            /\ calls[d].pc \in {"awaitSend", "resolved"}
       IN calls' = [calls EXCEPT ![c] =
             IF r.ok /\ duplicate THEN Resolve(ready, Undefined)
             ELSE IF r.ok
             THEN Await(ready, "awaitSend", SendCollaborator(ready.op), <<SendParams(this, ready)>>)
             ELSE Catch(this, resumed, r.value)]
    /\ UNCHANGED this

\* TokenCoinsSettled with the failure of the query swallowed: the send goes
\* out with no token inventory.
TokenCoinsSettledSwallowing(c, r) ==
    /\ calls[c].pc = "awaitToken"
    /\ r \in CoinsResults(Undefined)
    /\ LET resumed == Resume(calls[c], r)
           ready == [resumed EXCEPT !.privacyAvailableCoins = IF r.ok THEN r.value ELSE Undefined]
       IN calls' = [calls EXCEPT ![c] =
             Await(ready, "awaitSend", SendCollaborator(ready.op), <<SendParams(this, ready)>>)]
    /\ UNCHANGED this

\* await this.getAvailableCoins() settles.  Fulfilled: the object literal is
\* complete and the send collaborator is called with it.
TokenCoinsSettled(c, r) ==
    /\ calls[c].pc = "awaitToken"
    /\ r \in CoinsResults(Undefined)
    /\ LET resumed == Resume(calls[c], r)
           ready == [resumed EXCEPT !.privacyAvailableCoins = r.value]
       IN calls' = [calls EXCEPT ![c] =
             IF r.ok
             THEN Await(ready, "awaitSend", SendCollaborator(ready.op), <<SendParams(this, ready)>>)
             ELSE Catch(this, resumed, r.value)]
    /\ UNCHANGED this

\* SendSettled taking the burnt amount off this.totalSupply once a burning went through.
SendSettledAdjustingSupply(c, r) ==
    /\ calls[c].pc = "awaitSend"
    /\ r \in HistoryResults(calls[c].awaiting)
    /\ LET resumed == Resume(calls[c], r)
       IN calls' = [calls EXCEPT ![c] =
             IF r.ok
             THEN Resolve(Emit(resumed, LogEntry("info", SuccessText(resumed.op), this.tokenId,
                                                 r.value.txId, Undefined)),
                          r.value)
             ELSE Catch(this, resumed, r.value)]
    /\ this' = IF r.ok /\ calls[c].op = "burning"
               THEN [this EXCEPT !.totalSupply = Num(@.v - calls[c].args.burningAmount.v)]
               ELSE this

\* The awaited send settles.  Fulfilled: L.info with history.txId, return
\* history.  Rejected: the catch block.
SendSettled(c, r) ==
    /\ calls[c].pc = "awaitSend"
    /\ r \in HistoryResults(calls[c].awaiting)
    /\ LET resumed == Resume(calls[c], r)
       IN calls' = [calls EXCEPT ![c] =
             IF r.ok
             THEN Resolve(Emit(resumed, LogEntry("info", SuccessText(resumed.op), this.tokenId,
                                                 r.value.txId, Undefined)),
                          r.value)
             ELSE Catch(this, resumed, r.value)]
    /\ UNCHANGED this

---------------------------------------------------------------------------
(* Bridge operations *)

\* new ErrorCode(`Token ${this.tokenId} does not support ... function`)
ErrorCode(text, tokenId) == [type |-> "error", kind |-> "ErrorCode", text |-> text, tokenId |-> tokenId]

Generators == {"genETHDepositAddress", "genERC20DepositAddress", "genCentralizedDepositAddress"}

Addresses == {Str("addr1"), Str("addr2")}

AddressResults(name) == {Fulfilled(a) : a \in Addresses} \cup {Rejected(CollaboratorError(name))}

BridgeHistories == {Arr(<<>>), Arr(<<"h1">>)}

BridgeHistoryResults ==
    {Fulfilled(h) : h \in BridgeHistories} \cup {Rejected(CollaboratorError("getBridgeHistory"))}

\* CatchDeposit re-throwing without the L.error.
CatchDepositSilent(call, e) == Reject(call, e)

\* catch (e) { L.error('Generated temp deposit address failed', e); throw e; }
CatchDeposit(call, e) ==
    Reject(Emit(call, LogEntry("error", "Generated temp deposit address failed", Undefined, Undefined, e)), e)

\* catch (e) { L.error('Get bridge history failed', e); throw e; }
CatchHistory(call, e) ==
    Reject(Emit(call, LogEntry("error", "Get bridge history failed", Undefined, Undefined, e)), e)

\* EnterDeposit with tokenContractID put into commonParams, so that every
\* generator receives it.
EnterDepositContractInCommon(t, entered) ==
    IF ~Truthy(t.bridgeInfo)
    THEN CatchDeposit(entered, ErrorCode("Token # does not support deposit function", t.tokenId))
    ELSE LET commonParams == [paymentAddress |-> t.accountKeySet.paymentAddressKeySerialized,
                              walletAddress |-> t.accountKeySet.paymentAddressKeySerialized,
                              tokenId |-> t.tokenId,
                              currencyType |-> t.bridgeInfo.currencyType,
                              tokenContractID |-> t.bridgeInfo.contractID]
             logged == Emit(entered, LogEntry("info", "Create deposit request", Undefined, Undefined,
                                [tokenId |-> t.tokenId,
                                 currencyType |-> t.bridgeInfo.currencyType,
                                 paymentAddress |-> t.accountKeySet.paymentAddressKeySerialized]))
         IN IF Truthy(bridgeEthereum(t))
            THEN Await(logged, "awaitGen", "genETHDepositAddress", <<commonParams>>)
            ELSE IF Truthy(bridgeErc20Token(t))
            THEN Await(logged, "awaitGen", "genERC20DepositAddress", <<commonParams>>)
            ELSE Await(logged, "awaitGen", "genCentralizedDepositAddress", <<commonParams>>)

\* EnterDeposit with the ERC20 test ahead of the Ethereum test.
EnterDepositErc20First(t, entered) ==
    IF ~Truthy(t.bridgeInfo)
    THEN CatchDeposit(entered, ErrorCode("Token # does not support deposit function", t.tokenId))
    ELSE LET commonParams == [paymentAddress |-> t.accountKeySet.paymentAddressKeySerialized,
                              walletAddress |-> t.accountKeySet.paymentAddressKeySerialized,
                              tokenId |-> t.tokenId,
                              currencyType |-> t.bridgeInfo.currencyType]
             logged == Emit(entered, LogEntry("info", "Create deposit request", Undefined, Undefined,
                                [tokenId |-> t.tokenId,
                                 currencyType |-> t.bridgeInfo.currencyType,
                                 paymentAddress |-> t.accountKeySet.paymentAddressKeySerialized]))
         IN IF Truthy(bridgeErc20Token(t))
            THEN Await(logged, "awaitGen", "genERC20DepositAddress",
                       <<commonParams @@ [tokenContractID |-> t.bridgeInfo.contractID]>>)
            ELSE IF Truthy(bridgeEthereum(t))
            THEN Await(logged, "awaitGen", "genETHDepositAddress", <<commonParams>>)
            ELSE Await(logged, "awaitGen", "genCentralizedDepositAddress", <<commonParams>>)

\* The head of bridgeGenerateDepositAddress, up to the await of the branch taken.
EnterDeposit(t, entered) ==
    IF ~Truthy(t.bridgeInfo)
    THEN CatchDeposit(entered, ErrorCode("Token # does not support deposit function", t.tokenId))
    ELSE LET commonParams == [paymentAddress |-> t.accountKeySet.paymentAddressKeySerialized,
                              walletAddress |-> t.accountKeySet.paymentAddressKeySerialized,
                              tokenId |-> t.tokenId,
                              currencyType |-> t.bridgeInfo.currencyType]
             logged == Emit(entered, LogEntry("info", "Create deposit request", Undefined, Undefined,
                                [tokenId |-> t.tokenId,
                                 currencyType |-> t.bridgeInfo.currencyType,
                                 paymentAddress |-> t.accountKeySet.paymentAddressKeySerialized]))
         IN IF Truthy(bridgeEthereum(t))
            THEN Await(logged, "awaitGen", "genETHDepositAddress", <<commonParams>>)
            ELSE IF Truthy(bridgeErc20Token(t))
            THEN Await(logged, "awaitGen", "genERC20DepositAddress",
                       <<commonParams @@ [tokenContractID |-> t.bridgeInfo.contractID]>>)
            ELSE Await(logged, "awaitGen", "genCentralizedDepositAddress", <<commonParams>>)

bridgeGenerateDepositAddress(c) ==
    /\ this.constructed
    /\ calls[c].pc = "idle"
    /\ calls' = [calls EXCEPT ![c] =
          EnterDeposit(this, [IdleCall EXCEPT !.op = "bridgeGenerateDepositAddress"])]
    /\ UNCHANGED this

\* DepositAddressSettled without the L.warning.
DepositAddressSettledUnwarned(c, r) ==
    /\ calls[c].pc = "awaitGen"
    /\ r \in AddressResults(calls[c].awaiting)
    /\ LET resumed == Resume(calls[c], r)
       IN calls' = [calls EXCEPT ![c] =
             IF r.ok
             THEN Resolve(Emit(resumed,
                               LogEntry("info", "Generated temp deposit address successfully: #",
                                        Undefined, r.value, Undefined)),
                          r.value)
             ELSE CatchDeposit(resumed, r.value)]
    /\ UNCHANGED this

\* The awaited generator settles.  Fulfilled: L.info, L.warning, return tempAddress.
DepositAddressSettled(c, r) ==
    /\ calls[c].pc = "awaitGen"
    /\ r \in AddressResults(calls[c].awaiting)
    /\ LET resumed == Resume(calls[c], r)
       IN calls' = [calls EXCEPT ![c] =
             IF r.ok
             THEN Resolve(
                    Emit(Emit(resumed,
                              LogEntry("info", "Generated temp deposit address successfully: #",
                                       Undefined, r.value, Undefined)),
                         LogEntry("warning",
                                  "The temp deposit address (#) is only available in 60 mins from now",
                                  Undefined, r.value, Undefined)),
                    r.value)
             ELSE CatchDeposit(resumed, r.value)]
    /\ UNCHANGED this

\* EnterHistory testing this.bridgeInfo === null in place of !this.bridgeInfo.
EnterHistoryNullOnly(t, entered) ==
    IF t.bridgeInfo = Null
    THEN CatchHistory(entered, ErrorCode("Token # does not support bridge history function", t.tokenId))
    ELSE Await(entered, "awaitHistory", "getBridgeHistory",
               <<[paymentAddress |-> t.accountKeySet.paymentAddressKeySerialized,
                  tokenId |-> t.tokenId]>>)

\* The head of bridgeGetHistory, up to the await.
EnterHistory(t, entered) ==
    IF ~Truthy(t.bridgeInfo)
    THEN CatchHistory(entered, ErrorCode("Token # does not support bridge history function", t.tokenId))
    ELSE Await(entered, "awaitHistory", "getBridgeHistory",
               <<[paymentAddress |-> t.accountKeySet.paymentAddressKeySerialized,
                  tokenId |-> t.tokenId]>>)

bridgeGetHistory(c) ==
    /\ this.constructed
    /\ calls[c].pc = "idle"
    /\ calls' = [calls EXCEPT ![c] = EnterHistory(this, [IdleCall EXCEPT !.op = "bridgeGetHistory"])]
    /\ UNCHANGED this

\* BridgeHistorySettled giving up on the pending getBridgeHistory: the call
\* rejects with a timeout of its own, whatever the collaborator does.
BridgeHistoryTimedOut(c, r) ==
    /\ calls[c].pc = "awaitHistory"
    /\ r \in BridgeHistoryResults
    /\ calls' = [calls EXCEPT ![c] =
          CatchHistory([calls[c] EXCEPT !.awaiting = "none"],
                       [type |-> "error", kind |-> "Timeout", from |-> "getBridgeHistory"])]
    /\ UNCHANGED this

\* await getBridgeHistory(...) settles.
BridgeHistorySettled(c, r) ==
    /\ calls[c].pc = "awaitHistory"
    /\ r \in BridgeHistoryResults
    /\ LET resumed == Resume(calls[c], r)
       IN calls' = [calls EXCEPT ![c] =
             IF r.ok
             THEN Resolve(Emit(resumed, LogEntry("info", "Get bridge history successfully",
                                                 Undefined, Undefined, Undefined)),
                          r.value)
             ELSE CatchHistory(resumed, r.value)]
    /\ UNCHANGED this

---------------------------------------------------------------------------
(* hasExchangeRate, getNativeAvailableCoins *)

ExchangeRateResults ==
    {Fulfilled(Bool(b)) : b \in BOOLEAN} \cup {Rejected(CollaboratorError("hasExchangeRate"))}

\* hasExchangeRate answering from the result an earlier call obtained.
hasExchangeRateCached(c) ==
    /\ this.constructed
    /\ calls[c].pc = "idle"
    /\ LET known == {d \in Calls : calls[d].op = "hasExchangeRate" /\ calls[d].pc = "resolved"}
       IN calls' = [calls EXCEPT ![c] =
             IF known # {}
             THEN Resolve([IdleCall EXCEPT !.op = "hasExchangeRate"],
                          calls[CHOOSE d \in known : TRUE].value)
             ELSE Await([IdleCall EXCEPT !.op = "hasExchangeRate"], "awaitRate", "hasExchangeRate",
                        <<this.tokenId>>)]
    /\ UNCHANGED this

hasExchangeRate(c) ==
    /\ this.constructed
    /\ calls[c].pc = "idle"
    /\ calls' = [calls EXCEPT ![c] =
          Await([IdleCall EXCEPT !.op = "hasExchangeRate"], "awaitRate", "hasExchangeRate",
                <<this.tokenId>>)]
    /\ UNCHANGED this

\* return await hasExchangeRate(this.tokenId): no try, no log.
ExchangeRateSettled(c, r) ==
    /\ calls[c].pc = "awaitRate"
    /\ r \in ExchangeRateResults
    /\ LET resumed == Resume(calls[c], r)
       IN calls' = [calls EXCEPT ![c] =
             IF r.ok THEN Resolve(resumed, r.value) ELSE Reject(resumed, r.value)]
    /\ UNCHANGED this

\* getNativeAvailableCoins called by the wallet itself.
getNativeAvailableCoins(c) ==
    /\ this.constructed
    /\ calls[c].pc = "idle"
    /\ calls' = [calls EXCEPT ![c] =
          Await([IdleCall EXCEPT !.op = "getNativeAvailableCoins"], "awaitCoins",
                "getAvailableCoins", <<Null>>)]
    /\ UNCHANGED this

\* The promise of this.getAvailableCoins(null) is the promise returned.
AvailableCoinsSettled(c, r) ==
    /\ calls[c].pc = "awaitCoins"
    /\ r \in CoinsResults(Null)
    /\ LET resumed == Resume(calls[c], r)
       IN calls' = [calls EXCEPT ![c] =
             IF r.ok THEN Resolve(resumed, r.value) ELSE Reject(resumed, r.value)]
    /\ UNCHANGED this

---------------------------------------------------------------------------
(* Specifications *)

SendResults == UNION {HistoryResults(SendCollaborator(op)) : op \in SendOps}

GeneratorResults == UNION {AddressResults(g) : g \in Generators}

\* A caller invokes an operation on slot c, with every combination of arguments.
Invocation(c) ==
    /\ calls[c].pc = "idle"
    /\ \/ \E pl \in PaymentLists, nf \in Amounts, pf \in Amounts : transfer(c, pl, nf, pf)
       \/ \E oa \in Strings, ba \in Amounts, nf \in Amounts, pf \in Amounts :
             burning(c, oa, ba, nf, pf)
       \/ \E id \in Strings, ca \in Amounts, nf \in Amounts, pf \in Amounts :
             pdeContribution(c, id, ca, nf, pf)
       \/ \E tb \in Strings, sa \in Amounts, ma \in Amounts, nf \in Amounts, pf \in Amounts,
             tf \in Amounts : requestTrade(c, tb, sa, ma, nf, pf, tf)
       \/ bridgeGenerateDepositAddress(c)
       \/ bridgeGetHistory(c)
       \/ hasExchangeRate(c)
       \/ getNativeAvailableCoins(c)

\* A collaborator's promise settles and the call awaiting it resumes.
Settlement(c) ==
    \/ \E r \in CoinsResults(Null) : NativeCoinsSettled(c, r)
    \/ \E r \in CoinsResults(Undefined) : TokenCoinsSettled(c, r)
    \/ \E r \in SendResults : SendSettled(c, r)
    \/ \E r \in GeneratorResults : DepositAddressSettled(c, r)
    \/ \E r \in BridgeHistoryResults : BridgeHistorySettled(c, r)
    \/ \E r \in ExchangeRateResults : ExchangeRateSettled(c, r)
    \/ \E r \in CoinsResults(Null) : AvailableCoinsSettled(c, r)

\* One call on the instance.
Next == Invocation(1) \/ Settlement(1)

Spec == Init /\ [][Next]_vars

\* Every collaborator call that is issued eventually completes or fails.
SpecFair == Init /\ [][Next]_vars /\ WF_vars(Settlement(1))

\* Up to MaxCalls calls in flight on the instance at once.  The callers pass
\* well-formed arguments except for a nativeFee that may be negative, and
\* each collaborator either yields its first answer or fails.
ConcFees == {Num(-1), Num(1)}

ConcPaymentList == Arr(<<[paymentAddressStr |-> "addr", amount |-> 1]>>)

ConcOutcomes(results) == {r \in results : ~r.ok \/ r.value \in
    {[type |-> "coins", filter |-> Null, n |-> 1], [type |-> "coins", filter |-> Undefined, n |-> 1],
     [type |-> "history", txId |-> Str("tx1")], Str("addr1"), Arr(<<>>), Bool(TRUE)}}

InvocationConc(c) ==
    /\ calls[c].pc = "idle"
    /\ IF c = 1 THEN TRUE ELSE calls[c - 1].pc # "idle"
    /\ \/ \E nf \in ConcFees : transfer(c, ConcPaymentList, nf, Num(1))
       \/ \E nf \in ConcFees : burning(c, Str("s"), Num(1), nf, Num(1))
       \/ \E nf \in ConcFees : pdeContribution(c, Str("s"), Num(1), nf, Num(1))
       \/ \E nf \in ConcFees : requestTrade(c, Str("s"), Num(1), Num(1), nf, Num(1), Num(1))
       \/ bridgeGenerateDepositAddress(c)
       \/ bridgeGetHistory(c)
       \/ hasExchangeRate(c)
       \/ getNativeAvailableCoins(c)

SettlementConc(c) ==
    \/ \E r \in ConcOutcomes(CoinsResults(Null)) : NativeCoinsSettled(c, r)
    \/ \E r \in ConcOutcomes(CoinsResults(Undefined)) : TokenCoinsSettled(c, r)
    \/ \E r \in ConcOutcomes(SendResults) : SendSettled(c, r)
    \/ \E r \in ConcOutcomes(GeneratorResults) : DepositAddressSettled(c, r)
    \/ \E r \in ConcOutcomes(BridgeHistoryResults) : BridgeHistorySettled(c, r)
    \/ \E r \in ConcOutcomes(ExchangeRateResults) : ExchangeRateSettled(c, r)
    \/ \E r \in ConcOutcomes(CoinsResults(Null)) : AvailableCoinsSettled(c, r)

NextConc == \E c \in Calls : InvocationConc(c) \/ SettlementConc(c)

\* The instances the concurrent calls run on: a token with an ERC20 bridge
\* and one without bridgeInfo.
ConcInstances ==
    {constructor(AccountKeySet, PrivacyTokenApi(Str("T1"), b)) :
        b \in {Null, BridgeInfo(ERC20, Str("0xABC"))}}

InitConc ==
    /\ this \in ConcInstances
    /\ calls = [c \in Calls |-> IdleCall]

SpecConc == InitConc /\ [][NextConc]_vars

---------------------------------------------------------------------------
(* Reading a call's trace *)

Events(k) == 1..Len(k.trace)

\* Positions at which the call invoked a collaborator / one of names.
CollaboratorCalls(k) == {i \in Events(k) : k.trace[i].ev = "call"}

CallsTo(k, names) == {i \in CollaboratorCalls(k) : k.trace[i].name \in names}

\* getAvailableCoins(null) is the native query, getAvailableCoins() the token's.
NativeQueries(k) == {i \in CallsTo(k, {"getAvailableCoins"}) : k.trace[i].params = <<Null>>}

TokenQueries(k) == {i \in CallsTo(k, {"getAvailableCoins"}) : k.trace[i].params = <<>>}

SendCollaborators == {SendCollaborator(op) : op \in SendOps}

SendCalls(k) == CallsTo(k, SendCollaborators)

\* Positions at which an awaited collaborator failed.
Failures(k) == {i \in Events(k) : k.trace[i].ev = "settle" /\ ~k.trace[i].ok}

\* The parameters of each method in the order the methods declare them, with
\* the shape each must have.
DeclaredParams(op) ==
    CASE op = "transfer" ->
           << <<"paymentList", "paymentInfoList">>, <<"nativeFee", "amount">>,
              <<"privacyFee", "amount">> >>
      [] op = "burning" ->
           << <<"outchainAddress", "string">>, <<"burningAmount", "amount">>,
              <<"nativeFee", "amount">>, <<"privacyFee", "amount">> >>
      [] op = "pdeContribution" ->
           << <<"pdeContributionPairID", "string">>, <<"contributedAmount", "amount">>,
              <<"nativeFee", "amount">>, <<"privacyFee", "amount">> >>
      [] op = "requestTrade" ->
           << <<"tokenIdBuy", "string">>, <<"sellAmount", "amount">>,
              <<"minimumAcceptableAmount", "amount">>, <<"nativeFee", "amount">>,
              <<"privacyFee", "amount">>, <<"tradingFee", "amount">> >>

\* Positions in DeclaredParams of the arguments of call k that are invalid.
InvalidParams(k) ==
    {i \in 1..Len(DeclaredParams(k.op)) :
        LET d == DeclaredParams(k.op)[i]
        IN ~(IsDefined(k.args[d[1]]) /\ Passes(d[2], k.args[d[1]]))}

Absent(x) == x = Null \/ x = Undefined

---------------------------------------------------------------------------
(* Claims *)

\* C1: a call of transfer, burning, pdeContribution or requestTrade with an
\* invalid parameter has rejected with the validation error and has invoked
\* no collaborator: neither inventory query nor the send.
C1_InvalidRejectsBeforeCollaborators ==
    \A c \in Calls :
        LET k == calls[c]
        IN (k.op \in SendOps /\ InvalidParams(k) # {}) =>
              /\ k.pc = "rejected"
              /\ k.value.kind = "ValidationError"
              /\ CollaboratorCalls(k) = {}

\* A requestTrade whose only invalid parameter is a negative tradingFee, the
\* last one validated, has rejected.
C1_Witness ==
    \E c \in Calls :
        /\ calls[c].op = "requestTrade"
        /\ calls[c].args.tradingFee = Num(-1)
        /\ InvalidParams(calls[c]) = {6}
        /\ calls[c].pc = "rejected"

\* C2: on a token without bridgeInfo both bridge operations reject with the
\* ErrorCode naming the token's id, and neither a deposit-address generator
\* nor getBridgeHistory is invoked.
C2_NoBridgeInfoRejects ==
    \A c \in Calls :
        LET k == calls[c]
        IN (k.op \in {"bridgeGenerateDepositAddress", "bridgeGetHistory"} /\ Absent(this.bridgeInfo)) =>
              /\ k.pc = "rejected"
              /\ k.value.kind = "ErrorCode"
              /\ k.value.tokenId = this.tokenId
              /\ k.value.text = (IF k.op = "bridgeGetHistory"
                                 THEN "Token # does not support bridge history function"
                                 ELSE "Token # does not support deposit function")
              /\ CallsTo(k, Generators \cup {"getBridgeHistory"}) = {}

C2_Witness ==
    \E c \in Calls :
        /\ calls[c].op = "bridgeGetHistory"
        /\ this.bridgeInfo = Undefined
        /\ calls[c].pc = "rejected"

\* C3: a bridgeGenerateDepositAddress call on a token with bridgeInfo invokes
\* exactly one generator, once: the Ethereum one when tokenId is the defined
\* Ethereum id, else the ERC20 one when currencyType is ERC20, else the
\* centralized one.
C3_Generator(tokenId, currencyType) ==
    IF tokenId = ETHEREUM THEN "genETHDepositAddress"
    ELSE IF currencyType = ERC20 THEN "genERC20DepositAddress"
    ELSE "genCentralizedDepositAddress"

C3_ExactlyOneGenerator ==
    \A c \in Calls :
        LET k == calls[c]
        IN (k.op = "bridgeGenerateDepositAddress" /\ ~Absent(this.bridgeInfo)) =>
              /\ Cardinality(CallsTo(k, Generators)) = 1
              /\ \A i \in CallsTo(k, Generators) :
                    k.trace[i].name = C3_Generator(this.tokenId, this.bridgeInfo.currencyType)

\* The Ethereum token with an ERC20 bridgeInfo got its address from the
\* Ethereum generator.
C3_Witness ==
    \E c \in Calls :
        /\ calls[c].op = "bridgeGenerateDepositAddress"
        /\ calls[c].pc = "resolved"
        /\ this.tokenId = ETHEREUM
        /\ this.bridgeInfo = BridgeInfo(ERC20, Str("0xABC"))
        /\ CallsTo(calls[c], {"genETHDepositAddress"}) # {}

\* The name under which each send collaborator takes the native inventory.
C4_NativeField(op) ==
    IF op \in {"transfer", "burning"} THEN "nativeAvailableCoins" ELSE "availableNativeCoins"

\* The position at which the query issued at position q was fulfilled, if it was.
C4_Fulfilment(k, q) ==
    {j \in Events(k) : j = q + 1 /\ k.trace[j].ev = "settle"
                       /\ k.trace[j].name = "getAvailableCoins" /\ k.trace[j].ok}

\* C4: when a call of the four send operations invokes its send collaborator,
\* it has issued the native query once and the token query once, both have
\* been fulfilled before the send, and the send is given their two results.
C4_InventoriesBeforeSend ==
    \A c \in Calls :
        LET k == calls[c]
        IN k.op \in SendOps =>
              \A s \in SendCalls(k) :
                  /\ Cardinality(NativeQueries(k)) = 1
                  /\ Cardinality(TokenQueries(k)) = 1
                  /\ \A n \in NativeQueries(k) :
                        \E j \in C4_Fulfilment(k, n) :
                            /\ j < s
                            /\ k.trace[s].params[1][C4_NativeField(k.op)] = k.trace[j].value
                  /\ \A q \in TokenQueries(k) :
                        \E j \in C4_Fulfilment(k, q) :
                            /\ j < s
                            /\ k.trace[s].params[1].privacyAvailableCoins = k.trace[j].value

\* A pdeContribution was sent after the two queries gave different inventories.
C4_Witness ==
    \E c \in Calls :
        /\ calls[c].op = "pdeContribution"
        /\ SendCalls(calls[c]) # {}
        /\ calls[c].nativeAvailableCoins.n = 0
        /\ calls[c].privacyAvailableCoins.n = 1

C5_Ops == SendOps \cup {"bridgeGenerateDepositAddress", "bridgeGetHistory"}

\* C5: when the send collaborator, an inventory query, a deposit-address
\* generator or getBridgeHistory fails with e, the call rejects with e itself
\* and returns nothing.
C5_SameErrorRethrown ==
    \A c \in Calls :
        LET k == calls[c]
        IN k.op \in C5_Ops =>
              \A i \in Failures(k) :
                  /\ k.pc = "rejected"
                  /\ k.value = k.trace[i].value

\* A requestTrade whose send failed.
C5_Witness ==
    \E c \in Calls :
        /\ calls[c].op = "requestTrade"
        /\ \E i \in Failures(calls[c]) : calls[c].trace[i].name = "sendPrivacyTokenPdeTradeRequest"
        /\ calls[c].pc = "rejected"

\* C6: when the native or the token inventory query of a call of the four
\* send operations fails, the call rejects and never invokes its send
\* collaborator.
C6_NoSendAfterFailedQuery ==
    \A c \in Calls :
        LET k == calls[c]
        IN (k.op \in SendOps /\ \E i \in Failures(k) : k.trace[i].name = "getAvailableCoins") =>
              /\ SendCalls(k) = {}
              /\ k.pc = "rejected"

\* A burning whose native query succeeded and whose token query failed.
C6_Witness ==
    \E c \in Calls :
        /\ calls[c].op = "burning"
        /\ calls[c].pc = "rejected"
        /\ calls[c].nativeAvailableCoins # Undefined
        /\ \E i \in Failures(calls[c]) : calls[c].trace[i].name = "getAvailableCoins"

\* C7: without bridgeInfo both getters are the boolean false, and in general
\* bridgeEthereum is the boolean (bridgeInfo present and tokenId is the
\* defined Ethereum id) and bridgeErc20Token the boolean (bridgeInfo present
\* and currencyType is ERC20).
C7_BridgeGettersAreBooleans ==
    this.constructed =>
        /\ Absent(this.bridgeInfo) =>
              (bridgeErc20Token(this) = Bool(FALSE) /\ bridgeEthereum(this) = Bool(FALSE))
        /\ bridgeEthereum(this) = Bool(~Absent(this.bridgeInfo) /\ this.tokenId = ETHEREUM)
        /\ bridgeErc20Token(this) =
              Bool(IF Absent(this.bridgeInfo) THEN FALSE ELSE this.bridgeInfo.currencyType = ERC20)

\* C8: the parameters are validated in declaration order and the first
\* invalid one decides: the call rejects with the validation error of the
\* earliest invalid parameter, and no parameter after it has been validated.
C8_FirstFailureWins ==
    \A c \in Calls :
        LET k == calls[c]
            d == DeclaredParams(k.op)
        IN (k.op \in SendOps /\ InvalidParams(k) # {}) =>
              LET f == CHOOSE i \in InvalidParams(k) : \A j \in InvalidParams(k) : i <= j
              IN /\ k.pc = "rejected"
                 /\ k.value.kind = "ValidationError"
                 /\ k.value.param = d[f][1]
                 /\ k.validated = [i \in 1..f |-> d[i][1]]

\* A burning with an invalid burningAmount and two invalid fees has rejected.
C8_Witness ==
    \E c \in Calls :
        /\ calls[c].op = "burning"
        /\ InvalidParams(calls[c]) = {2, 3, 4}
        /\ calls[c].pc = "rejected"

\* C9: no step of any operation changes the instance's tokenId, name,
\* symbol, isPrivacyToken, totalSupply or bridgeInfo.
C9_InstanceNeverChanges ==
    [][/\ this'.tokenId = this.tokenId
       /\ this'.name = this.name
       /\ this'.symbol = this.symbol
       /\ this'.isPrivacyToken = this.isPrivacyToken
       /\ this'.totalSupply = this.totalSupply
       /\ this'.bridgeInfo = this.bridgeInfo]_vars

\* A burning of a positive amount has gone through.
C9_Witness ==
    \E c \in Calls :
        /\ calls[c].op = "burning"
        /\ calls[c].args.burningAmount = Num(1)
        /\ calls[c].pc = "resolved"

\* Both inventory queries of the call have been fulfilled.
C10_Gathered(k) ==
    /\ \E q \in NativeQueries(k) : C4_Fulfilment(k, q) # {}
    /\ \E q \in TokenQueries(k) : C4_Fulfilment(k, q) # {}

\* C10: a call of the four send operations invokes its send collaborator at
\* most once, and once when validation and both queries succeeded; no query
\* or send is issued again after a failure; and two calls with the same
\* arguments that both got their inventories make two sends.
C10_OneSendPerCall ==
    /\ \A c \in Calls :
          LET k == calls[c]
          IN k.op \in SendOps =>
                /\ Cardinality(SendCalls(k)) <= 1
                /\ Cardinality(NativeQueries(k)) <= 1
                /\ Cardinality(TokenQueries(k)) <= 1
                /\ (InvalidParams(k) = {} /\ C10_Gathered(k)) => Cardinality(SendCalls(k)) = 1
                /\ \A i \in Failures(k) : \A j \in CollaboratorCalls(k) : j < i
    /\ \A c1 \in Calls, c2 \in Calls :
          LET k1 == calls[c1]
              k2 == calls[c2]
          IN (/\ c1 # c2
              /\ k1.op \in SendOps
              /\ k1.op = k2.op
              /\ k1.args = k2.args
              /\ C10_Gathered(k1)
              /\ C10_Gathered(k2)) =>
                 Cardinality(SendCalls(k1)) + Cardinality(SendCalls(k2)) = 2

\* Two transfers with the same arguments have both been sent.
C10_Witness ==
    \E c1 \in Calls, c2 \in Calls :
        /\ c1 # c2
        /\ calls[c1].op = "transfer"
        /\ calls[c2].op = "transfer"
        /\ calls[c1].args = calls[c2].args
        /\ SendCalls(calls[c1]) # {}
        /\ SendCalls(calls[c2]) # {}

\* C11: constructing without accountKeySet or without privacyTokenApi throws
\* the validation error, that of accountKeySet when both are missing, and
\* leaves no instance and no copied field; otherwise tokenId, name and symbol
\* are the description's, isPrivacyToken is true, and totalSupply and
\* bridgeInfo are the description's supplyAmount and bridgeInfo as given.
C11_Construction ==
    \A a \in AccountKeySetInputs, p \in PrivacyTokenApiInputs :
        this = constructor(a, p) =>
            IF Absent(a) \/ Absent(p)
            THEN /\ ~this.constructed
                 /\ this.error.kind = "ValidationError"
                 /\ this.error.param = (IF Absent(a) THEN "accountKeySet" ELSE "privacyTokenApi")
                 /\ \A f \in {"tokenId", "name", "symbol", "isPrivacyToken", "totalSupply", "bridgeInfo"} :
                       this[f] = Undefined
            ELSE /\ this.constructed
                 /\ this.tokenId = p.tokenId
                 /\ this.name = p.name
                 /\ this.symbol = p.symbol
                 /\ this.isPrivacyToken = Bool(TRUE)
                 /\ this.totalSupply = p.supplyAmount
                 /\ this.bridgeInfo = p.bridgeInfo

\* The constructor threw for the missing accountKeySet.
C11_Witness ==
    /\ ~this.constructed
    /\ this.error.param = "accountKeySet"

\* Positions of the L.error entries of a call.
ErrorEntries(k) == {i \in Events(k) : k.trace[i].ev = "log" /\ k.trace[i].level = "error"}

\* The failure message of each operation that has one.
C12_Message(op) ==
    CASE op \in SendOps -> FailedText(op)
      [] op = "bridgeGenerateDepositAddress" -> "Generated temp deposit address failed"
      [] op = "bridgeGetHistory" -> "Get bridge history failed"
      [] OTHER -> "none"

\* The entry names the token: in its message or in the error it carries.
C12_CarriesTokenId(e) ==
    \/ e.tokenId = this.tokenId
    \/ e.data.kind = "ErrorCode" /\ e.data.tokenId = this.tokenId

\* C12 as stated: every call that rejects has logged exactly one error entry,
\* and the entry carries the operation's name, the token id and the error.
C12_EveryFailureLogged ==
    \A c \in Calls :
        LET k == calls[c]
        IN k.pc = "rejected" =>
              /\ Cardinality(ErrorEntries(k)) = 1
              /\ \A i \in ErrorEntries(k) :
                    /\ k.trace[i].text = C12_Message(k.op)
                    /\ C12_CarriesTokenId(k.trace[i])
                    /\ k.trace[i].data = k.value

\* C12 as amended: a rejecting transfer, burning, pdeContribution,
\* requestTrade, bridgeGenerateDepositAddress or bridgeGetHistory has logged
\* exactly one error entry, as its last effect, carrying the operation's
\* failure message and the error thrown; the entry carries the token id for
\* the four send operations, and for the bridge operations only inside the
\* unsupported-capability error; hasExchangeRate and getNativeAvailableCoins
\* reject without logging.
C12_FailuresLoggedWhereCaught ==
    \A c \in Calls :
        LET k == calls[c]
        IN k.pc = "rejected" =>
              IF k.op \in {"hasExchangeRate", "getNativeAvailableCoins"}
              THEN ErrorEntries(k) = {}
              ELSE /\ ErrorEntries(k) = {Len(k.trace)}
                   /\ LET e == k.trace[Len(k.trace)]
                      IN /\ e.text = C12_Message(k.op)
                         /\ e.data = k.value
                         /\ (k.op \in SendOps) => e.tokenId = this.tokenId
                         /\ (k.op \notin SendOps) =>
                               /\ e.tokenId = Undefined
                               /\ C12_CarriesTokenId(e) <=> k.value.kind = "ErrorCode"

\* A bridgeGenerateDepositAddress whose generator failed.
C12_Witness ==
    \E c \in Calls :
        /\ calls[c].op = "bridgeGenerateDepositAddress"
        /\ calls[c].pc = "rejected"
        /\ calls[c].value.kind = "CollaboratorError"

\* Positions of the attempt and of the success entries of a call of a send operation.
AttemptEntries(k) ==
    {i \in Events(k) : k.trace[i].ev = "log" /\ k.trace[i].level = "info"
                       /\ k.trace[i].text = AttemptText(k.op)}

SuccessEntries(k) ==
    {i \in Events(k) : k.trace[i].ev = "log" /\ k.trace[i].level = "info"
                       /\ k.trace[i].text = SuccessText(k.op)}

\* The outcome entry of a settled call: one success entry with the txId of
\* the history returned, after the send, or one failure entry with the error.
C13_Outcome(k) ==
    /\ k.pc = "resolved" =>
          /\ ErrorEntries(k) = {}
          /\ Cardinality(SuccessEntries(k)) = 1
          /\ \A i \in SuccessEntries(k) :
                /\ k.trace[i].interpolated = k.value.txId
                /\ k.trace[i].tokenId = this.tokenId
                /\ \A a \in AttemptEntries(k) : a < i
                /\ \E s \in SendCalls(k) : s < i
    /\ k.pc = "rejected" =>
          /\ SuccessEntries(k) = {}
          /\ Cardinality(ErrorEntries(k)) = 1
          /\ \A i \in ErrorEntries(k) :
                /\ k.trace[i].data = k.value
                /\ \A a \in AttemptEntries(k) : a < i
    /\ k.pc \notin {"resolved", "rejected"} => (SuccessEntries(k) = {} /\ ErrorEntries(k) = {})

\* C13 as stated: every call of the four send operations has written an
\* attempt entry, ahead of every collaborator call, and once settled exactly
\* one outcome entry after it.
C13_AttemptThenOutcome ==
    \A c \in Calls :
        LET k == calls[c]
        IN k.op \in SendOps =>
              /\ Cardinality(AttemptEntries(k)) = 1
              /\ \A a \in AttemptEntries(k) : \A j \in CollaboratorCalls(k) : a < j
              /\ C13_Outcome(k)

\* C13 as amended: a call whose parameters pass validation has written one
\* attempt entry, ahead of every collaborator call, and once settled exactly
\* one outcome entry after it; a call that fails validation writes no attempt
\* entry, only the failure entry.
C13_AttemptOnceValidated ==
    \A c \in Calls :
        LET k == calls[c]
        IN k.op \in SendOps =>
              /\ Cardinality(AttemptEntries(k)) = (IF InvalidParams(k) = {} THEN 1 ELSE 0)
              /\ \A a \in AttemptEntries(k) : \A j \in CollaboratorCalls(k) : a < j
              /\ C13_Outcome(k)

\* A pdeContribution has returned the history with the second txId.
C13_Witness ==
    \E c \in Calls :
        /\ calls[c].op = "pdeContribution"
        /\ calls[c].pc = "resolved"
        /\ calls[c].value.txId = Str("tx2")

\* Positions of the L.warning entries of a call.
WarningEntries(k) == {i \in Events(k) : k.trace[i].ev = "log" /\ k.trace[i].level = "warning"}

\* C14: a bridgeGenerateDepositAddress call that returns has, in this order,
\* logged the attempt, invoked the generator, logged the success with the
\* generated address and logged one warning that the address lasts 60
\* minutes; it returns the address the generator produced; a call that
\* rejects has logged no warning.
C14_DepositAddressLogged ==
    \A c \in Calls :
        LET k == calls[c]
            t == k.trace
        IN k.op = "bridgeGenerateDepositAddress" =>
              /\ k.pc = "resolved" =>
                    \E a, g, s, i, w \in Events(k) :
                        /\ a < g /\ g < s /\ s < i /\ i < w
                        /\ t[a].ev = "log" /\ t[a].level = "info" /\ t[a].text = "Create deposit request"
                        /\ CallsTo(k, Generators) = {g}
                        /\ t[s].ev = "settle" /\ t[s].ok /\ t[s].name = t[g].name
                        /\ t[i].ev = "log" /\ t[i].level = "info"
                        /\ t[i].text = "Generated temp deposit address successfully: #"
                        /\ t[i].interpolated = t[s].value
                        /\ WarningEntries(k) = {w}
                        /\ t[w].text = "The temp deposit address (#) is only available in 60 mins from now"
                        /\ t[w].interpolated = t[s].value
                        /\ k.value = t[s].value
              /\ k.pc = "rejected" => WarningEntries(k) = {}

\* An ERC20 deposit address has been returned.
C14_Witness ==
    \E c \in Calls :
        /\ calls[c].op = "bridgeGenerateDepositAddress"
        /\ calls[c].pc = "resolved"
        /\ calls[c].value = Str("addr2")
        /\ CallsTo(calls[c], {"genERC20DepositAddress"}) # {}

\* C15: the generator invoked receives the account's serialized payment
\* address as paymentAddress and as walletAddress, the token's id and
\* bridgeInfo.currencyType; it receives tokenContractID, equal to
\* bridgeInfo.contractID, exactly when it is the ERC20 generator.
C15_GeneratorParams ==
    \A c \in Calls :
        LET k == calls[c]
        IN k.op = "bridgeGenerateDepositAddress" =>
              \A g \in CallsTo(k, Generators) :
                  LET p == k.trace[g].params[1]
                  IN /\ Len(k.trace[g].params) = 1
                     /\ p.paymentAddress = this.accountKeySet.paymentAddressKeySerialized
                     /\ p.walletAddress = this.accountKeySet.paymentAddressKeySerialized
                     /\ p.tokenId = this.tokenId
                     /\ p.currencyType = this.bridgeInfo.currencyType
                     /\ ("tokenContractID" \in DOMAIN p) <=> (k.trace[g].name = "genERC20DepositAddress")
                     /\ (k.trace[g].name = "genERC20DepositAddress") =>
                           p.tokenContractID = this.bridgeInfo.contractID

\* The ERC20 generator was invoked with the bridge's contract id 0xABC.
C15_Witness ==
    \E c \in Calls :
        \E g \in CallsTo(calls[c], {"genERC20DepositAddress"}) :
            /\ this.tokenId # ETHEREUM
            /\ calls[c].trace[g].params[1].tokenContractID = Str("0xABC")

\* The answers a call has received from its collaborators, in order.
C16_Responses(k) ==
    LET settles == SelectSeq(k.trace, LAMBDA e : e.ev = "settle")
    IN [i \in 1..Len(settles) |-> [ok |-> settles[i].ok, value |-> settles[i].value]]

\* The Validator statements of a send operation called with args.
C16_Statements(op, args) ==
    [i \in 1..Len(DeclaredParams(op)) |->
        <<DeclaredParams(op)[i][1], args[DeclaredParams(op)[i][1]], DeclaredParams(op)[i][2]>>]

\* An operation called with no other call on the instance: up to its first await.
C16_Start(t, op, args) ==
    CASE op \in SendOps -> Enter(t, op, args, C16_Statements(op, args))
      [] op = "bridgeGenerateDepositAddress" -> EnterDeposit(t, [IdleCall EXCEPT !.op = op])
      [] op = "bridgeGetHistory" -> EnterHistory(t, [IdleCall EXCEPT !.op = op])
      [] op = "hasExchangeRate" ->
           Await([IdleCall EXCEPT !.op = op], "awaitRate", "hasExchangeRate", <<t.tokenId>>)
      [] op = "getNativeAvailableCoins" ->
           Await([IdleCall EXCEPT !.op = op], "awaitCoins", "getAvailableCoins", <<Null>>)

\* The same call resumed with the answer r to the collaborator call it awaits.
C16_Step(t, k, r) ==
    LET resumed == Resume(k, r)
    IN CASE k.pc = "awaitNative" ->
              IF r.ok
              THEN Await([resumed EXCEPT !.nativeAvailableCoins = r.value],
                         "awaitToken", "getAvailableCoins", <<>>)
              ELSE Catch(t, resumed, r.value)
         [] k.pc = "awaitToken" ->
              IF r.ok
              THEN LET ready == [resumed EXCEPT !.privacyAvailableCoins = r.value]
                   IN Await(ready, "awaitSend", SendCollaborator(k.op), <<SendParams(t, ready)>>)
              ELSE Catch(t, resumed, r.value)
         [] k.pc = "awaitSend" ->
              IF r.ok
              THEN Resolve(Emit(resumed, LogEntry("info", SuccessText(k.op), t.tokenId,
                                                  r.value.txId, Undefined)), r.value)
              ELSE Catch(t, resumed, r.value)
         [] k.pc = "awaitGen" ->
              IF r.ok
              THEN Resolve(
                     Emit(Emit(resumed,
                               LogEntry("info", "Generated temp deposit address successfully: #",
                                        Undefined, r.value, Undefined)),
                          LogEntry("warning",
                                   "The temp deposit address (#) is only available in 60 mins from now",
                                   Undefined, r.value, Undefined)),
                     r.value)
              ELSE CatchDeposit(resumed, r.value)
         [] k.pc = "awaitHistory" ->
              IF r.ok
              THEN Resolve(Emit(resumed, LogEntry("info", "Get bridge history successfully",
                                                  Undefined, Undefined, Undefined)), r.value)
              ELSE CatchHistory(resumed, r.value)
         [] k.pc \in {"awaitRate", "awaitCoins"} ->
              IF r.ok THEN Resolve(resumed, r.value) ELSE Reject(resumed, r.value)
         [] OTHER -> k

RECURSIVE C16_Alone(_, _, _, _)
\* The call record after the operation, run alone, has received the answers rs.
C16_Alone(t, op, args, rs) ==
    IF rs = <<>> THEN C16_Start(t, op, args)
    ELSE C16_Step(t, C16_Alone(t, op, args, SubSeq(rs, 1, Len(rs) - 1)), rs[Len(rs)])

\* C16: with several operations in flight on the instance, each call has
\* issued the collaborator calls, with the arguments, and has the outcome
\* that the same operation has when run alone and given the same answers by
\* its collaborators.
C16_AsWhenRunAlone ==
    \A c \in Calls :
        LET k == calls[c]
        IN k.op # "none" => k = C16_Alone(this, k.op, k.args, C16_Responses(k))

\* Two calls of different operations are suspended at the same time.
C16_Witness ==
    /\ calls[1].op = "transfer"
    /\ calls[1].pc = "awaitSend"
    /\ calls[2].op = "burning"
    /\ calls[2].pc = "awaitToken"

\* Positions of the collaborator calls whose promise has not settled.
Pending(k) ==
    {g \in CollaboratorCalls(k) :
        ~(g < Len(k.trace) /\ k.trace[g + 1].ev = "settle" /\ k.trace[g + 1].name = k.trace[g].name)}

\* A call makes at most two inventory queries and one dispatch, awaits one
\* collaborator call at a time, and is settled only when none is pending.
C17_Bounded ==
    \A c \in Calls :
        LET k == calls[c]
        IN /\ Cardinality(CallsTo(k, {"getAvailableCoins"})) <= 2
           /\ Cardinality(CollaboratorCalls(k) \ CallsTo(k, {"getAvailableCoins"})) <= 1
           /\ k.pc \in {"resolved", "rejected"} => Pending(k) = {}
           /\ k.pc \notin {"idle", "resolved", "rejected"} =>
                 (Pending(k) = {Len(k.trace)} /\ k.trace[Len(k.trace)].name = k.awaiting)

\* C17: when every collaborator call issued eventually completes or fails,
\* every call eventually returns or rejects, after at most two inventory
\* queries and one dispatch, and never while a collaborator call of its own
\* is still pending.
C17_EveryCallSettles ==
    /\ []C17_Bounded
    /\ \A c \in Calls :
          (calls[c].pc # "idle") ~> (calls[c].pc \in {"resolved", "rejected"})

\* A requestTrade has returned after its three collaborator calls.
C17_Witness ==
    \E c \in Calls :
        /\ calls[c].op = "requestTrade"
        /\ calls[c].pc = "resolved"
        /\ Cardinality(CollaboratorCalls(calls[c])) = 3

\* C18: within a call of the four send operations the token query is issued
\* only after the native query has been fulfilled; when the native query
\* fails no token query is issued; the two are never pending together.
C18_NativeThenToken ==
    \A c \in Calls :
        LET k == calls[c]
        IN k.op \in SendOps =>
              /\ \A q \in TokenQueries(k) :
                    \E n \in NativeQueries(k) : \E j \in C4_Fulfilment(k, n) : j < q
              /\ (\E n \in NativeQueries(k) : n + 1 \in Failures(k)) => TokenQueries(k) = {}
              /\ Cardinality(Pending(k) \cap CallsTo(k, {"getAvailableCoins"})) <= 1

\* A transfer whose native query failed has rejected.
C18_Witness ==
    \E c \in Calls :
        /\ calls[c].op = "transfer"
        /\ calls[c].pc = "rejected"
        /\ \E n \in NativeQueries(calls[c]) : n + 1 \in Failures(calls[c])

\* C19: every call of hasExchangeRate queries the exchange-rate collaborator
\* once, with this token's id, whatever earlier calls obtained, and returns
\* what the collaborator yielded to it or rejects with the collaborator's error.
C19_NoExchangeRateCache ==
    \A c \in Calls :
        LET k == calls[c]
            q == CallsTo(k, {"hasExchangeRate"})
        IN /\ Cardinality(q) = (IF k.op = "hasExchangeRate" THEN 1 ELSE 0)
           /\ \A i \in q : k.trace[i].params = <<this.tokenId>>
           /\ (k.op = "hasExchangeRate" /\ k.pc \in {"resolved", "rejected"}) =>
                 \A i \in q :
                     /\ i + 1 \in Events(k)
                     /\ k.trace[i + 1].ev = "settle"
                     /\ k.trace[i + 1].ok <=> k.pc = "resolved"
                     /\ k.value = k.trace[i + 1].value

\* After a hasExchangeRate that returned true, a second one rejected with the
\* collaborator's error.
C19_Witness ==
    /\ calls[1].op = "hasExchangeRate"
    /\ calls[1].pc = "resolved"
    /\ calls[2].op = "hasExchangeRate"
    /\ calls[2].pc = "rejected"
    /\ CallsTo(calls[2], {"hasExchangeRate"}) # {}

====
